---- MODULE Spec2Model ----
(***************************************************************************)
(* keyring-search: the search port (CredentialSearchApi::by) of every      *)
(* backend, the global mock credential store, and the presenter            *)
(* (List::list_credentials).                                               *)
(*                                                                         *)
(* Text that is matched by a regex is a sequence of one-character strings; *)
(* outer-map keys and attribute names are strings.  A line of rendered     *)
(* text is the tuple of the pieces its format!() call puts together.  A    *)
(* HashMap is a function; its iteration order is not defined by the code   *)
(* and is chosen by the environment.                                       *)
(***************************************************************************)
EXTENDS Integers, Sequences, FiniteSets, TLC

VARIABLES
    store,      \* mock.rs GLOBAL_CREDENTIAL_STORE.inner: Vec<Arc<MockData>>
    backend,    \* the backend boxed in Search.inner
    by,         \* `by` argument of the last CredentialSearchApi::by call
    query,      \* `query` argument of the last call
    source,     \* what the backend record source handed to the last call
    result,     \* CredentialSearchResult of the last call
    listed,     \* search_result argument of the last List::list_credentials call
    limit,      \* Limit passed to the last List::list_credentials call
    output,     \* Result<String> of the last List::list_credentials call
    platform,   \* the backend module the cfg attributes of lib.rs alias as `default`
    requested,  \* the backend last given to set_default_credential_search
    build,      \* what the build makes of slice::from_raw_parts on a null pointer
    previous,   \* arguments and result of the call before, kept by the caller
    lock,       \* mock.rs MockCredentialStore.inner: the RwLock's holders
    pc,         \* where each thread stands in add, get or by
    arg         \* the arguments of the call each thread is in

vars == <<store, backend, by, query, source, result, listed, limit, output,
          platform, requested, build, previous, lock, pc, arg>>

\* lib.rs default choice and set_default_credential_search
defaultVars == <<platform, requested>>
\* mock.rs RwLock and the threads that take it
lockVars == <<lock, pc, arg>>

(***************************************************************************)
(* Bounds                                                                  *)
(***************************************************************************)
MaxStore == 2       \* records added to the mock store
MaxItems == 2       \* records a backend record source returns to one call
MaxEntries == 3     \* entries of a success map given to the presenter
MaxLimit == 4       \* largest n of a Limit::Max(n) given to the presenter

(***************************************************************************)
(* Inputs                                                                  *)
(***************************************************************************)
SeqsUpTo(S, n) == UNION {[1..k -> S] : k \in 0..n}

\* queries: the empty one, literal ones, ones with the metacharacter '.',
\* and ones with a '[' that opens a character class nothing closes
Queries == {<<>>, <<"a">>, <<"b", "a">>, <<"a", "a">>,
            <<".">>, <<".", "a">>, <<"[">>, <<"a", "[">>}
MetaChars == {".", "["}

\* field values of mock credentials
Names == {<<"b">>, <<"b", "A">>}

MockDataSet == [service : Names, target : Names, user : Names]

\* `by` arguments: the three of lib.rs, a mixed-case spelling, the two extra
\* macOS dimensions, and one that no backend knows
ByValues == {"user", "service", "target", "User", "label", "account",
             "bogus-dimension"}

Backends == {"mock", "windows", "secret-service", "keyutils", "macos", "ios"}

(***************************************************************************)
(* Results                                                                 *)
(***************************************************************************)
EmptyMap == <<>>

Ok(m) == [tag |-> "Ok", map |-> m, detail |-> ""]
Failure(t, d) == [tag |-> t, map |-> EmptyMap, detail |-> d]
NoResults == Failure("NoResults", "")
SearchError(d) == Failure("SearchError", d)
Unexpected(d) == Failure("Unexpected", d)
\* a panic unwinds out of by(): the caller gets no CredentialSearchResult
Panic(d) == Failure("Panic", d)
NoCall == Failure("NoCall", "")

\* HashMap::insert
Insert(m, k, v) == [x \in (DOMAIN m) \cup {k} |-> IF x = k THEN v ELSE m[x]]

(***************************************************************************)
(* str / regex                                                             *)
(***************************************************************************)
to_ascii_lowercase(s) ==
    CASE s = "User" -> "user"
      [] OTHER -> s

\* case folding the (?i) flag applies to one character
Fold(c) ==
    CASE c = "A" -> "a"
      [] c = "B" -> "b"
      [] OTHER -> c

\* Regex::new(format!("(?i){}", query)): a '[' that is never closed is a
\* parse error; otherwise one atom per character
RegexNew(q) ==
    IF \E i \in 1..Len(q) : q[i] = "["
    THEN [ok |-> FALSE, atoms |-> <<>>]
    ELSE [ok |-> TRUE,
          atoms |-> [i \in 1..Len(q) |->
                       IF q[i] = "." THEN [any |-> TRUE, ch |-> "."]
                       ELSE [any |-> FALSE, ch |-> Fold(q[i])]]]

AtomMatches(atom, c) == atom.any \/ atom.ch = Fold(c)

\* is_match with the empty pattern matching nothing
is_match_NonEmpty(regex, hay) ==
    /\ Len(regex.atoms) > 0
    /\ \E start \in 0..(Len(hay) - Len(regex.atoms)) :
        \A j \in 1..Len(regex.atoms) : AtomMatches(regex.atoms[j], hay[start + j])

\* Regex::is_match: unanchored
is_match(regex, hay) ==
    \E start \in 0..(Len(hay) - Len(regex.atoms)) :
        \A j \in 1..Len(regex.atoms) : AtomMatches(regex.atoms[j], hay[start + j])

(***************************************************************************)
(* mock.rs                                                                 *)
(***************************************************************************)
\* the second loop inserting the inner map as it was before the iteration
RECURSIVE MockAssemble_StaleMap(_, _, _, _, _)
MockAssemble_StaleMap(results, i, count, inner_map, outer_map) ==
    IF i > Len(results) THEN [count |-> count, outer_map |-> outer_map]
    ELSE LET c == count + 1
             im1 == Insert(inner_map, "User", results[i].user)
             im2 == Insert(im1, "Service", results[i].service)
             im3 == Insert(im2, "Target", results[i].target)
         IN MockAssemble_StaleMap(results, i + 1, c, im3,
                Insert(outer_map, ToString(c),
                       IF inner_map = EmptyMap THEN im3 ELSE inner_map))

\* the second loop of search_by_*: count, inner_map and outer_map are
\* carried from one iteration to the next
RECURSIVE MockAssemble(_, _, _, _, _)
MockAssemble(results, i, count, inner_map, outer_map) ==
    IF i > Len(results) THEN [count |-> count, outer_map |-> outer_map]
    ELSE LET c == count + 1
             im1 == Insert(inner_map, "User", results[i].user)
             im2 == Insert(im1, "Service", results[i].service)
             im3 == Insert(im2, "Target", results[i].target)
         IN MockAssemble(results, i + 1, c, im3, Insert(outer_map, ToString(c), im3))

MockFinish(results) ==
    LET a == MockAssemble(results, 1, 0, EmptyMap, EmptyMap)
    IN IF a.count = 0 THEN NoResults ELSE Ok(a.outer_map)

\* search_by_*: data is the Vec behind the lock. The lock is not poisoned in
\* a run without a panicking lock holder (add holds it across Vec::push
\* only), so the Err arm of store.inner.write() is not taken.

\* search_by_user testing the service field
search_by_user_WrongField(regex, data) ==
    MockFinish(SelectSeq(data, LAMBDA credential : is_match(regex, credential.service)))

search_by_user(regex, data) ==
    MockFinish(SelectSeq(data, LAMBDA credential : is_match(regex, credential.user)))

search_by_service(regex, data) ==
    MockFinish(SelectSeq(data, LAMBDA credential : is_match(regex, credential.service)))

search_by_target(regex, data) ==
    MockFinish(SelectSeq(data, LAMBDA credential : is_match(regex, credential.target)))

MockBy(b, q, data) ==
    LET regex == RegexNew(q)
        lower == to_ascii_lowercase(b)
    IN IF ~regex.ok THEN SearchError("Regex Error")
       ELSE CASE lower = "user" -> search_by_user(regex, data)
              [] lower = "service" -> search_by_service(regex, data)
              [] lower = "target" -> search_by_target(regex, data)
              [] OTHER -> Unexpected("Mock by parameter")

(***************************************************************************)
(* windows.rs                                                              *)
(***************************************************************************)
DAYS == <<"Monday", "Tuesday", "Wednesday", "Thursday", "Friday", "Saturday",
          "Sunday">>
MONTHS == <<"January", "February", "March", "April", "May", "June", "July",
            "August", "September", "October", "November", "December">>

\* CREDENTIALW as CredEnumerateW hands it out; wDayOfWeek and wMonth are the
\* SYSTEMTIME fields LocalFileTimeToLocalSystemTime fills in (0 = Sunday; all
\* zero when the conversion failed)
GoodCred == [UserName |-> <<"b", "A">>, TargetName |-> <<"t", "=", "b", "A">>,
             Comment |-> <<"b">>, Type |-> 1, Persist |-> 2,
             wDayOfWeek |-> 1, wMonth |-> 12]

WinCredSet ==
    { GoodCred,
      [GoodCred EXCEPT !.UserName = <<>>, !.TargetName = <<"b", "A">>],
      [GoodCred EXCEPT !.wDayOfWeek = 0],
      [GoodCred EXCEPT !.wDayOfWeek = 0, !.wMonth = 0],
      [GoodCred EXCEPT !.TargetName = <<>>],
      [GoodCred EXCEPT !.Type = 0],
      [GoodCred EXCEPT !.Persist = 4] }

\* enumerated = FALSE: CredEnumerateW failed (for one, no credential exists)
\* and left the null pointer and count 0
WinSources ==
    {[enumerated |-> FALSE, creds |-> <<>>]} \cup
    {[enumerated |-> TRUE, creds |-> c] : c \in SeqsUpTo(WinCredSet, MaxItems) \ {<<>>}}

\* str::find('=')
FindEq(s) ==
    IF \E i \in 1..Len(s) : s[i] = "="
    THEN CHOOSE i \in 1..Len(s) : s[i] = "=" /\ \A j \in 1..(i - 1) : s[j] # "="
    ELSE 0

\* get_last_written: DAYS[wDayOfWeek as usize - 1], MONTHS[wMonth as usize - 1]
LastWrittenPanics(c) ==
    \/ c.wDayOfWeek - 1 \notin 0..(Len(DAYS) - 1)
    \/ c.wMonth - 1 \notin 0..(Len(MONTHS) - 1)

get_last_written(c) == <<DAYS[(c.wDayOfWeek - 1) + 1], ", ", MONTHS[(c.wMonth - 1) + 1]>>

\* the body of the loop of get_all_credentials for one credential:
\* target_name[index + 1..] with index = find('=').unwrap_or(0) takes the
\* text after the first '=', or drops the first character when there is none
\* (FindEq = 0 is the 0-based unwrap_or(0); with '=' at 1-based i the 0-based
\* index is i - 1 and the slice starts at 1-based i + 1)
TargetSlicePanics(c) == FindEq(c.TargetName) = 0 /\ Len(c.TargetName) = 0

ConvertCred(c) ==
    LET i == FindEq(c.TargetName)
        from == IF i = 0 THEN 2 ELSE i + 1
    IN [username |-> IF c.UserName = <<>>
                     THEN <<"N", "O", " ", "U", "S", "E", "R">> ELSE c.UserName,
        target_name |-> SubSeq(c.TargetName, from, Len(c.TargetName)),
        comment |-> c.Comment,
        cred_type |-> c.Type,
        last_written |-> get_last_written(c),
        persist |-> c.Persist]

\* get_all_credentials: the entries, or a panic at the first credential whose
\* conversion panics. ub: slice::from_raw_parts on the null pointer that a
\* failed CredEnumerateW leaves is undefined behaviour: the build either
\* sees an empty slice or aborts on the precondition check
get_all_credentials(src, ub) ==
    IF ~src.enumerated
    THEN [panic |-> (ub = "abort"), entries |-> <<>>]
    ELSE IF \E i \in 1..Len(src.creds) :
                TargetSlicePanics(src.creds[i]) \/ LastWrittenPanics(src.creds[i])
         THEN [panic |-> TRUE, entries |-> <<>>]
         ELSE [panic |-> FALSE,
               entries |-> [i \in 1..Len(src.creds) |-> ConvertCred(src.creds[i])]]

match_cred_type(credential) ==
    CASE credential = 1 -> [ok |-> TRUE, val |-> <<"Generic">>]
      [] credential = 2 -> [ok |-> TRUE, val |-> <<"Domain Password">>]
      [] credential = 3 -> [ok |-> TRUE, val |-> <<"Domain Certificate">>]
      [] credential = 4 -> [ok |-> TRUE, val |-> <<"Domain Visible Password">>]
      [] credential = 5 -> [ok |-> TRUE, val |-> <<"Generic Certificate">>]
      [] credential = 6 -> [ok |-> TRUE, val |-> <<"Domain Extended">>]
      [] credential = 7 -> [ok |-> TRUE, val |-> <<"Maximum">>]
      [] credential = 1007 -> [ok |-> TRUE, val |-> <<"Maximum Ex">>]
      [] OTHER -> [ok |-> FALSE, val |-> <<"cred_type">>]

match_persist_type(credential) ==
    CASE credential = 0 -> [ok |-> TRUE, val |-> <<"None">>]
      [] credential = 1 -> [ok |-> TRUE, val |-> <<"Session">>]
      [] credential = 2 -> [ok |-> TRUE, val |-> <<"Local Machine">>]
      [] credential = 3 -> [ok |-> TRUE, val |-> <<"Enterprise">>]
      [] OTHER -> [ok |-> FALSE, val |-> <<"persist_type">>]

WinHaystack(search_type, credential) ==
    CASE search_type = "target" -> credential.target_name
      [] search_type = "service" -> credential.comment
      [] search_type = "user" -> credential.username

\* search: enumerate, compile, filter
WinSearchFn(search_type, search_parameter, src, ub) ==
    LET credentials == get_all_credentials(src, ub)
        regex == RegexNew(search_parameter)
    IN IF credentials.panic THEN [tag |-> "Panic", results |-> <<>>]
       ELSE IF ~regex.ok THEN [tag |-> "SearchError", results |-> <<>>]
       ELSE LET results == SelectSeq(credentials.entries,
                    LAMBDA credential : is_match(regex, WinHaystack(search_type, credential)))
            IN IF results = <<>> THEN [tag |-> "NoResults", results |-> <<>>]
               ELSE [tag |-> "Ok", results |-> results]

\* the loop of WinCredentialSearch::by
RECURSIVE WinAssemble(_, _, _, _)
WinAssemble(results, i, count, outer_map) ==
    IF i > Len(results) THEN Ok(outer_map)
    ELSE LET c == count + 1
             r == results[i]
             ty == match_cred_type(r.cred_type)
             pe == match_persist_type(r.persist)
         IN IF ~ty.ok THEN Unexpected("cred_type")
            ELSE IF ~pe.ok THEN Unexpected("persist_type")
            ELSE WinAssemble(results, i + 1, c,
                    Insert(outer_map, ToString(c),
                        [k \in {"Comment", "User", "Type", "Last Written", "Persist", "Target"} |->
                            CASE k = "Comment" -> r.comment
                              [] k = "User" -> r.username
                              [] k = "Type" -> ty.val
                              [] k = "Last Written" -> r.last_written
                              [] k = "Persist" -> pe.val
                              [] k = "Target" -> r.target_name]))

\* search_type, then WinCredentialSearch::by
WinBy(b, q, src, ub) ==
    LET lower == to_ascii_lowercase(b)
    IN IF lower \notin {"target", "service", "user"}
       THEN SearchError("Invalid search parameter, not Target, Service, or User")
       ELSE LET found == WinSearchFn(lower, q, src, ub)
            IN CASE found.tag = "Panic" -> Panic("get_all_credentials")
                 [] found.tag = "SearchError" -> SearchError("Regex Error")
                 [] found.tag = "NoResults" -> NoResults
                 [] OTHER -> WinAssemble(found.results, 1, 0, EmptyMap)

(***************************************************************************)
(* macos.rs, ios.rs                                                        *)
(***************************************************************************)
\* what SearchResult::simplify_dict gives for one keychain item: None, or
\* the attribute dictionary
NoneItem == [some |-> FALSE, dict |-> EmptyMap]
SomeItem(d) == [some |-> TRUE, dict |-> d]

KeychainItems ==
    { NoneItem,
      SomeItem([labl |-> "L1", acct |-> "u1", svce |-> "s1"]),
      SomeItem([labl |-> "L1", acct |-> "u2", svce |-> "s1"]),
      SomeItem([acct |-> "u1", svce |-> "s1"]),
      SomeItem([labl |-> "L2"]) }

\* ItemSearchOptions::search: an error, or the items found
KeychainSources ==
    {[ok |-> FALSE, items |-> <<>>]} \cup
    {[ok |-> TRUE, items |-> it] : it \in SeqsUpTo(KeychainItems, MaxItems)}

Remove(m, k) == [x \in (DOMAIN m) \ {k} |-> m[x]]

\* macos.rs to_credential_search_result
MacToResult(item, outer_map) ==
    IF ~item.some THEN [ok |-> FALSE, outer_map |-> outer_map]
    ELSE LET label == IF "labl" \in DOMAIN item.dict
                      THEN item.dict["labl"] ELSE "EMPTY LABEL"
         IN [ok |-> TRUE,
             outer_map |-> Insert(outer_map, label, Remove(item.dict, "labl"))]

RECURSIVE MacLoop(_, _, _)
MacLoop(items, i, outer_map) ==
    IF i > Len(items) THEN Ok(outer_map)
    ELSE LET r == MacToResult(items[i], outer_map)
         IN IF ~r.ok THEN NoResults ELSE MacLoop(items, i + 1, r.outer_map)

\* macos.rs search
MacBy(b, q, src) ==
    LET lower == to_ascii_lowercase(b)
    IN IF lower \notin {"label", "service", "account"}
       THEN SearchError("Invalid search parameter, not Label, Service, or Account")
       ELSE IF ~src.ok THEN NoResults
       ELSE MacLoop(src.items, 1, EmptyMap)

\* ios.rs to_credential_search_result
IosToResult(item, outer_map) ==
    IF ~item.some THEN [ok |-> FALSE, outer_map |-> outer_map]
    ELSE LET acct == IF "acct" \in DOMAIN item.dict
                     THEN item.dict["acct"] ELSE "Empty acct value"
             svce == IF "svce" \in DOMAIN item.dict
                     THEN item.dict["svce"] ELSE "Empty svce value"
         IN [ok |-> TRUE,
             outer_map |-> Insert(outer_map, "Label: " \o acct \o "@" \o svce, item.dict)]

RECURSIVE IosLoop(_, _, _)
IosLoop(items, i, outer_map) ==
    IF i > Len(items) THEN Ok(outer_map)
    ELSE LET r == IosToResult(items[i], outer_map)
         IN IF ~r.ok THEN NoResults ELSE IosLoop(items, i + 1, r.outer_map)

\* ios.rs search
IosBy(b, q, src) ==
    LET lower == to_ascii_lowercase(b)
    IN CASE lower \in {"service", "user"} ->
                IF ~src.ok THEN SearchError("search") ELSE IosLoop(src.items, 1, EmptyMap)
         [] lower = "target" ->
                Unexpected("cannot search by target in iOS, please use by_service or by_user")
         [] OTHER -> Unexpected("by parameter iOS")

(***************************************************************************)
(* secret_service.rs                                                       *)
(***************************************************************************)
\* one item of a collection: get_attributes() and get_label() each give a
\* value or a D-Bus error
SsItem(attrsOk, attrs, labelOk) ==
    [attrsOk |-> attrsOk, attrs |-> attrs, labelOk |-> labelOk, label |-> "L"]

SsUser == [k \in {"username"} |-> "u1"]
SsSchema == [k \in {"xdg:schema"} |-> "org.freedesktop.Secret.Generic"]
SsUserSchema == [k \in {"username", "xdg:schema"} |->
                    IF k = "username" THEN "u1" ELSE "org.freedesktop.Secret.Generic"]

\* an item one of whose own attributes is named "label"
SsUserLabel == [k \in {"username", "label"} |->
                   IF k = "username" THEN "u1" ELSE "mine"]

SsItems ==
    { SsItem(TRUE, SsUser, TRUE),
      SsItem(TRUE, SsUserLabel, TRUE),
      SsItem(TRUE, SsUserSchema, TRUE),
      SsItem(TRUE, SsSchema, TRUE),
      SsItem(TRUE, EmptyMap, TRUE),
      SsItem(FALSE, EmptyMap, TRUE),
      SsItem(TRUE, SsUser, FALSE) }

\* Collection::search_items: an error, or the items found there
SsCollections ==
    {[ok |-> FALSE, items |-> <<>>]} \cup
    {[ok |-> TRUE, items |-> it] : it \in SeqsUpTo(SsItems, 1)} \cup
    {[ok |-> TRUE, items |-> <<SsItem(TRUE, SsUser, TRUE), SsItem(TRUE, SsUserSchema, TRUE)>>]}

\* stage: how far SecretService::connect / get_all_collections got
SsSources ==
    {[stage |-> "connect", collections |-> <<>>],
     [stage |-> "collections", collections |-> <<>>]} \cup
    {[stage |-> "ok", collections |-> c] : c \in SeqsUpTo(SsCollections, MaxItems)}

\* the loop over the attributes of one item: iteration order is the
\* HashMap's, given here as the sequence keys
RECURSIVE SsAttrLoop(_, _, _, _, _, _)
SsAttrLoop(item, keys, j, count, inner_map, outer_map) ==
    IF j > Len(keys) THEN [ok |-> TRUE, outer_map |-> outer_map]
    ELSE LET im1 == IF keys[j] # "xdg:schema"
                    THEN Insert(inner_map, keys[j], item.attrs[keys[j]])
                    ELSE inner_map
         IN IF ~item.labelOk THEN [ok |-> FALSE, outer_map |-> outer_map]
            ELSE LET im2 == Insert(im1, "label", item.label)
                 IN SsAttrLoop(item, keys, j + 1, count, im2,
                               Insert(outer_map, ToString(count), im2))

\* an enumeration of a finite set
RECURSIVE SetToSeq(_)
SetToSeq(S) ==
    IF S = {} THEN <<>>
    ELSE LET x == CHOOSE x \in S : TRUE IN <<x>> \o SetToSeq(S \ {x})

\* the loop over the results of one collection
RECURSIVE SsItemLoop(_, _, _, _)
SsItemLoop(items, i, count, outer_map) ==
    IF i > Len(items) THEN [ok |-> TRUE, count |-> count, outer_map |-> outer_map]
    ELSE LET c == count + 1
         IN IF ~items[i].attrsOk THEN [ok |-> FALSE, count |-> c, outer_map |-> outer_map]
            ELSE LET r == SsAttrLoop(items[i], SetToSeq(DOMAIN items[i].attrs), 1, c,
                                     EmptyMap, outer_map)
                 IN IF ~r.ok THEN [ok |-> FALSE, count |-> c, outer_map |-> outer_map]
                    ELSE SsItemLoop(items, i + 1, c, r.outer_map)

\* the loop over the collections
RECURSIVE SsCollectionLoop(_, _, _, _)
SsCollectionLoop(collections, n, count, outer_map) ==
    IF n > Len(collections)
    THEN IF outer_map = EmptyMap THEN NoResults ELSE Ok(outer_map)
    ELSE IF ~collections[n].ok THEN SearchError("search_items")
    ELSE LET r == SsItemLoop(collections[n].items, 1, count, outer_map)
         IN IF ~r.ok THEN SearchError("item")
            ELSE SsCollectionLoop(collections, n + 1, r.count, r.outer_map)

\* secret_service.rs search_items
search_items(attribute, q, src) ==
    CASE src.stage = "connect" -> SearchError("connect")
      [] src.stage = "collections" -> SearchError("get_all_collections")
      [] OTHER -> SsCollectionLoop(src.collections, 1, 0, EmptyMap)

\* SsCredentialSearch::by
SsBy(b, q, src) ==
    LET lower == to_ascii_lowercase(b)
    IN CASE lower = "user" -> search_items("username", q, src)
         [] lower = "target" -> search_items("application", q, src)
         [] lower = "service" -> search_items("service", q, src)
         [] OTHER -> SearchError("Unexpected search by parameter")

(***************************************************************************)
(* keyutils.rs                                                             *)
(***************************************************************************)
\* Permission bits of the possessor byte, by bit number:
\* VIEW, READ, WRITE, SEARCH, LINK, SETATTR
PermBits == 0..5

\* get_permission_chars: '-', then from ALL (whose character is '-') down to
\* VIEW the character of each permission that is set, '-' otherwise
RECURSIVE PermString(_, _, _)
PermString(bits, i, perm_string) ==
    LET perm_chars == <<"v", "r", "w", "s", "l", "a">>
    IN IF i < 0 THEN perm_string
       ELSE PermString(bits, i - 1,
                perm_string \o (IF i \in bits THEN perm_chars[i + 1] ELSE "-"))

get_permission_chars(bits) == PermString(bits, 5, "--")

get_key_type(key_type) ==
    CASE key_type = "KeyRing" -> "KeyRing"
      [] key_type = "BigKey" -> "BigKey"
      [] key_type = "Logon" -> "Logon"
      [] key_type = "User" -> "User"

KeyMetadata ==
    [id : {7}, description : {"d1"}, perms : {{}, {0, 1, 3}}, gid : {0}, uid : {1000},
     ktype : {"User", "Logon"}]

\* how far the calls into the kernel got: KeyRing::from_special_id,
\* KeyRing::search (KeyDoesNotExist or another error), Key::metadata
KeyutilsSources ==
    {[stage |-> st, meta |-> CHOOSE m \in KeyMetadata : TRUE] :
        st \in {"ring", "KeyDoesNotExist", "search", "metadata"}} \cup
    {[stage |-> "ok", meta |-> m] : m \in KeyMetadata}

KeyringIdentifiers == {"thread", "process", "session", "user", "user session", "group"}

\* search_by_keyring taking the name of the keyring in any letter case
search_by_keyring_AnyCase(ring, q, src) ==
    IF ring \notin KeyringIdentifiers \cup {"Session"}
    THEN SearchError("must match keyutils keyring identifiers")
    ELSE CASE src.stage = "ring" -> SearchError("from_special_id")
           [] src.stage = "KeyDoesNotExist" -> NoResults
           [] src.stage = "search" -> SearchError("search")
           [] src.stage = "metadata" -> SearchError("metadata")
           [] OTHER ->
                LET m == src.meta
                    im1 == Insert(EmptyMap, "perm", get_permission_chars(m.perms))
                    im2 == Insert(im1, "gid", ToString(m.gid))
                    im3 == Insert(im2, "uid", ToString(m.uid))
                    im4 == Insert(im3, "ktype", get_key_type(m.ktype))
                IN Ok(Insert(EmptyMap,
                             "ID: " \o ToString(m.id) \o " Description: " \o m.description,
                             im4))

\* search_by_keyring: the match on the name is exact
search_by_keyring(ring, q, src) ==
    IF ring \notin KeyringIdentifiers
    THEN SearchError("must match keyutils keyring identifiers")
    ELSE CASE src.stage = "ring" -> SearchError("from_special_id")
           [] src.stage = "KeyDoesNotExist" -> NoResults
           [] src.stage = "search" -> SearchError("search")
           [] src.stage = "metadata" -> SearchError("metadata")
           [] OTHER ->
                LET m == src.meta
                    im1 == Insert(EmptyMap, "perm", get_permission_chars(m.perms))
                    im2 == Insert(im1, "gid", ToString(m.gid))
                    im3 == Insert(im2, "uid", ToString(m.uid))
                    im4 == Insert(im3, "ktype", get_key_type(m.ktype))
                IN Ok(Insert(EmptyMap,
                             "ID: " \o ToString(m.id) \o " Description: " \o m.description,
                             im4))

\* by() handing its by argument to search_by_keyring
KeyutilsBy_UsesBy(b, q, src) == search_by_keyring(b, q, src)

\* KeyutilsCredentialSearch::by
KeyutilsBy(b, q, src) == search_by_keyring("session", q, src)

(***************************************************************************)
(* lib.rs: List                                                            *)
(***************************************************************************)
All == [kind |-> "All", max |-> 0]
Max(n) == [kind |-> "Max", max |-> n]

\* the orders in which a HashMap with key set S may be iterated
Orders(S) ==
    {o \in [1..Cardinality(S) -> S] : \A i, j \in DOMAIN o : i # j => o[i] # o[j]}

\* one iteration order for each inner map of m
InnerOrders(m) ==
    {f \in [DOMAIN m -> UNION {Orders(DOMAIN m[k]) : k \in DOMAIN m}] :
        \A k \in DOMAIN m : f[k] \in Orders(DOMAIN m[k])}

\* AttrLines leaving out the attribute iterated last
AttrLines_DropLast(inner_map, o) ==
    [j \in 1..(Len(o) - 1) |-> <<o[j], ": ", inner_map[o[j]]>>]

\* the lines "{key}: {value}\n" of one inner map, iterated in order o
AttrLines(inner_map, o) == [j \in 1..Len(o) |-> <<o[j], ": ", inner_map[o[j]]>>]

OkText(lines) == [tag |-> "Ok", lines |-> lines, detail |-> ""]

\* the Err arm giving Err(NoResults) for every failure
ErrText_AsNoResults(r) == [tag |-> "NoResults", lines |-> <<>>, detail |-> ""]

\* the arm Err(err) => Err(err) of list_all and list_max
ErrText(r) == [tag |-> r.tag, lines |-> <<>>, detail |-> r.detail]

\* list_all: for every entry the line "{outer_key}\n", then its attributes
RECURSIVE ListAllLoop(_, _, _, _, _)
ListAllLoop(m, ko, io, i, out) ==
    IF i > Len(ko) THEN out
    ELSE ListAllLoop(m, ko, io, i + 1,
                     out \o <<<<ko[i]>>>> \o AttrLines(m[ko[i]], io[ko[i]]))

list_all(r, ko, io) ==
    IF r.tag = "Ok" THEN OkText(ListAllLoop(r.map, ko, io, 1, <<>>))
    ELSE ErrText(r)

\* list_max leaving the loop when count >= max
RECURSIVE ListMaxLoop_OffByOne(_, _, _, _, _, _, _)
ListMaxLoop_OffByOne(m, ko, io, i, count, max, out) ==
    IF i > Len(ko) THEN out
    ELSE LET out1 == out \o <<<<"Target: " \o ko[i]>>>> \o AttrLines(m[ko[i]], io[ko[i]])
             count1 == count + 1
         IN IF count1 >= max THEN out1
            ELSE ListMaxLoop_OffByOne(m, ko, io, i + 1, count1, max, out1)

\* list_max: count starts at 1; for every entry the line
\* "Target: {outer_key}\n", then its attributes, then count += 1 and the
\* loop is left when count > max
RECURSIVE ListMaxLoop(_, _, _, _, _, _, _)
ListMaxLoop(m, ko, io, i, count, max, out) ==
    IF i > Len(ko) THEN out
    ELSE LET out1 == out \o <<<<"Target: " \o ko[i]>>>> \o AttrLines(m[ko[i]], io[ko[i]])
             count1 == count + 1
         IN IF count1 > max THEN out1
            ELSE ListMaxLoop(m, ko, io, i + 1, count1, max, out1)

list_max(r, max, ko, io) ==
    IF r.tag = "Ok" THEN OkText(ListMaxLoop(r.map, ko, io, 1, 1, max, <<>>))
    ELSE ErrText(r)

\* list_credentials; ko and io are the iteration orders of the maps
list_credentials(search_result, lim, ko, io) ==
    IF lim.kind = "All" THEN list_all(search_result, ko, io)
    ELSE list_max(search_result, lim.max, ko, io)

(***************************************************************************)
(* Specification                                                           *)
(***************************************************************************)
NoLimit == [kind |-> "None", max |-> 0]
NoOutput == [tag |-> "NoCall", lines |-> <<>>, detail |-> ""]
NoPrevious == [by |-> "", query |-> <<>>, source |-> <<>>, result |-> NoCall]

\* slice::from_raw_parts(null, 0) is undefined behaviour: a build with the
\* precondition check of debug assertions aborts there, a build without it
\* goes on with an empty slice; only windows.rs has the call
Builds(be) == IF be = "windows" THEN {"empty", "abort"} ELSE {"n/a"}

Threads == {"t1", "t2"}
NoCredential == [service |-> <<>>, target |-> <<>>, user |-> <<>>]
NoArg == [by |-> "", query |-> <<>>, credential |-> NoCredential]
Unlocked == [writer |-> "none", readers |-> {}]

\* no thread is inside add, get or by
Quiet ==
    /\ lock = Unlocked
    /\ pc = [t \in Threads |-> "idle"]
    /\ arg = [t \in Threads |-> NoArg]

Init ==
    /\ store = <<>>
    /\ backend \in Backends
    /\ by = ""
    /\ query = <<>>
    /\ source = <<>>
    /\ result = NoCall
    /\ listed = NoCall
    /\ limit = NoLimit
    /\ output = NoOutput
    /\ platform = backend
    /\ requested = "none"
    /\ build \in Builds(backend)
    /\ previous = NoPrevious
    /\ Quiet

\* by() is synchronous: the model follows one call at a time, from its
\* invocation until the caller has dropped the CredentialSearchResult
Idle == result = NoCall

\* an add that puts the record in front of the others
MockAdd_Prepend ==
    /\ backend = "mock"
    /\ Len(store) < MaxStore
    /\ \E credential \in MockDataSet : store' = <<credential>> \o store
    /\ UNCHANGED <<backend, by, query, source, result, listed, limit, output>>
    /\ UNCHANGED <<defaultVars, build, previous, lockVars>>

\* MockCredentialStore::add; only a Search that wraps the mock backend reads
\* the store
MockAdd ==
    /\ backend = "mock"
    /\ Len(store) < MaxStore
    /\ \E credential \in MockDataSet : store' = Append(store, credential)
    /\ UNCHANGED <<backend, by, query, source, result, listed, limit, output>>
    /\ UNCHANGED <<defaultVars, build, previous, lockVars>>

\* a by() that takes the matches out of the store
MockSearch_Draining ==
    /\ backend = "mock"
    /\ Idle
    /\ \E b \in ByValues, q \in Queries :
        /\ by' = b
        /\ query' = q
        /\ source' = store
        /\ result' = MockBy(b, q, store)
        /\ store' = IF MockBy(b, q, store).tag = "Ok" THEN <<>> ELSE store
    /\ UNCHANGED <<backend, listed, limit, output>>
    /\ UNCHANGED <<defaultVars, build, previous, lockVars>>

\* MockCredentialSearch::by
MockSearch ==
    /\ backend = "mock"
    /\ Idle
    /\ \E b \in ByValues, q \in Queries :
        /\ by' = b
        /\ query' = q
        /\ source' = store
        /\ result' = MockBy(b, q, store)
    /\ UNCHANGED <<store, backend, listed, limit, output>>
    /\ UNCHANGED <<defaultVars, build, previous, lockVars>>

\* WinCredentialSearch::by
WinSearch ==
    /\ backend = "windows"
    /\ Idle
    /\ \E b \in ByValues, q \in Queries, src \in WinSources :
        /\ by' = b
        /\ query' = q
        /\ source' = src
        /\ result' = WinBy(b, q, src, build)
    /\ UNCHANGED <<store, backend, listed, limit, output>>
    /\ UNCHANGED <<defaultVars, build, previous, lockVars>>

\* MacCredentialSearch::by
MacSearch ==
    /\ backend = "macos"
    /\ Idle
    /\ \E b \in ByValues, q \in Queries, src \in KeychainSources :
        /\ by' = b
        /\ query' = q
        /\ source' = src
        /\ result' = MacBy(b, q, src)
    /\ UNCHANGED <<store, backend, listed, limit, output>>
    /\ UNCHANGED <<defaultVars, build, previous, lockVars>>

\* IosCredentialSearch::by
IosSearch ==
    /\ backend = "ios"
    /\ Idle
    /\ \E b \in ByValues, q \in Queries, src \in KeychainSources :
        /\ by' = b
        /\ query' = q
        /\ source' = src
        /\ result' = IosBy(b, q, src)
    /\ UNCHANGED <<store, backend, listed, limit, output>>
    /\ UNCHANGED <<defaultVars, build, previous, lockVars>>

\* SsCredentialSearch::by
SsSearch ==
    /\ backend = "secret-service"
    /\ Idle
    /\ \E b \in ByValues, q \in Queries, src \in SsSources :
        /\ by' = b
        /\ query' = q
        /\ source' = src
        /\ result' = SsBy(b, q, src)
    /\ UNCHANGED <<store, backend, listed, limit, output>>
    /\ UNCHANGED <<defaultVars, build, previous, lockVars>>

\* KeyutilsCredentialSearch::by
KeyutilsSearch ==
    /\ backend = "keyutils"
    /\ Idle
    /\ \E b \in ByValues, q \in Queries, src \in KeyutilsSources :
        /\ by' = b
        /\ query' = q
        /\ source' = src
        /\ result' = KeyutilsBy(b, q, src)
    /\ UNCHANGED <<store, backend, listed, limit, output>>
    /\ UNCHANGED <<defaultVars, build, previous, lockVars>>

\* the caller drops the CredentialSearchResult it was given
Drop ==
    /\ ~Idle
    /\ by' = ""
    /\ query' = <<>>
    /\ source' = <<>>
    /\ result' = NoCall
    /\ UNCHANGED <<store, backend, listed, limit, output>>
    /\ UNCHANGED <<defaultVars, build, previous, lockVars>>

Next ==
    \/ MockAdd
    \/ MockSearch
    \/ WinSearch
    \/ MacSearch
    \/ IosSearch
    \/ SsSearch
    \/ KeyutilsSearch
    \/ Drop

Spec == Init /\ [][Next]_vars

(***************************************************************************)
(* Specification of the presenter: list_credentials is a function of the   *)
(* result it is given, the limit, and the maps' iteration orders            *)
(***************************************************************************)
Limits == {All} \cup {Max(n) : n \in (-1)..MaxLimit}

ListRecord == [service |-> <<"b">>, target |-> <<"b", "A">>, user |-> <<"b">>]

\* results a caller can hand to the presenter: mock results with 0 to
\* MaxEntries entries of three attributes, keychain results whose entries
\* have two, one or no attribute (and the empty success map), a keyutils
\* result, and failures
MockInputs ==
    {MockBy("user", <<>>, st) : st \in SeqsUpTo({ListRecord}, MaxEntries)} \cup
    {MockBy("user", <<"[">>, <<>>), MockBy("bogus-dimension", <<>>, <<>>)}

MacInputs ==
    {MacBy("label", <<>>, [ok |-> TRUE, items |-> it]) : it \in
        {<<>>,
         <<SomeItem([labl |-> "L1", acct |-> "u1", svce |-> "s1"])>>,
         <<SomeItem([labl |-> "L1", acct |-> "u1", svce |-> "s1"]),
           SomeItem([labl |-> "L2"])>>,
         <<SomeItem([acct |-> "u1"]), SomeItem([labl |-> "L2"])>>}}

KeyutilsInputs ==
    {KeyutilsBy("user", <<>>, src) : src \in {s \in KeyutilsSources : s.meta.perms = {}}}

InitList ==
    /\ store = <<>>
    /\ backend = "mock"
    /\ by = ""
    /\ query = <<>>
    /\ source = <<>>
    /\ \/ result \in MockInputs
       \/ result \in MacInputs
       \/ result \in KeyutilsInputs
    /\ listed = NoCall
    /\ limit = NoLimit
    /\ output = NoOutput
    /\ platform = backend
    /\ requested = "none"
    /\ build \in Builds(backend)
    /\ previous = NoPrevious
    /\ Quiet

\* List::list_credentials: search_result is moved into the call
ListCredentials ==
    /\ ~Idle
    /\ \E lim \in Limits :
       \E ko \in Orders(DOMAIN result.map) :
       \E io \in InnerOrders(result.map) :
        /\ listed' = result
        /\ limit' = lim
        /\ output' = list_credentials(result, lim, ko, io)
    /\ result' = NoCall
    /\ UNCHANGED <<store, backend, by, query, source>>
    /\ UNCHANGED <<defaultVars, build, previous, lockVars>>

NextList == ListCredentials

SpecList == InitList /\ [][NextList]_vars

(***************************************************************************)
(* Specification of the choice of backend: lib.rs Search::new,             *)
(* set_default_credential_search and the three entry points of Search      *)
(***************************************************************************)
\* the backend modules a build for a platform holds: mock always; on linux
\* the features can compile keyutils and secret_service side by side
Compiled(p) ==
    {"mock", p} \cup
    (IF p \in {"secret-service", "keyutils"} THEN {"secret-service", "keyutils"} ELSE {})

\* what the record source of a backend hands to a call
SomeSources(be) ==
    CASE be = "mock" -> {store}
      [] be = "windows" ->
            {[enumerated |-> FALSE, creds |-> <<>>],
             [enumerated |-> TRUE, creds |-> <<GoodCred>>]}
      [] be \in {"macos", "ios"} ->
            {[ok |-> FALSE, items |-> <<>>],
             [ok |-> TRUE, items |-> <<SomeItem([labl |-> "L1", acct |-> "u1", svce |-> "s1"])>>]}
      [] be = "secret-service" ->
            {[stage |-> "connect", collections |-> <<>>],
             [stage |-> "ok",
              collections |-> <<[ok |-> TRUE, items |-> <<SsItem(TRUE, SsUser, TRUE)>>]>>]}
      [] be = "keyutils" -> {s \in KeyutilsSources : s.meta.perms = {} /\ s.meta.ktype = "User"}

\* self.inner.by(by, query): the call goes to the backend boxed in inner
InnerBy(be, b, q, src) ==
    CASE be = "mock" -> MockBy(b, q, src)
      [] be = "windows" -> WinBy(b, q, src, build)
      [] be = "macos" -> MacBy(b, q, src)
      [] be = "ios" -> IosBy(b, q, src)
      [] be = "secret-service" -> SsBy(b, q, src)
      [] be = "keyutils" -> KeyutilsBy(b, q, src)

InitDefault ==
    /\ store = <<>>
    /\ platform \in Backends
    /\ backend = "none"
    /\ requested = "none"
    /\ by = ""
    /\ query = <<>>
    /\ source = <<>>
    /\ result = NoCall
    /\ listed = NoCall
    /\ limit = NoLimit
    /\ output = NoOutput
    /\ build \in Builds(platform)
    /\ previous = NoPrevious
    /\ Quiet

\* set_default_credential_search(default_search): returns a Search around
\* default_search and writes nothing else
SetDefaultCredentialSearch ==
    /\ Idle
    /\ \E default_search \in Compiled(platform) :
        /\ requested' = default_search
        /\ backend' = default_search
    /\ UNCHANGED <<store, by, query, source, result, listed, limit, output>>
    /\ UNCHANGED <<platform, build, previous, lockVars>>

\* Search::new: default_credential_search() boxes default::default_credential_search()
SearchNew ==
    /\ Idle
    /\ backend' = platform
    /\ UNCHANGED <<store, by, query, source, result, listed, limit, output>>
    /\ UNCHANGED <<defaultVars, build, previous, lockVars>>

\* the body the three entry points share: self.inner.by(dimension, query)
SearchBy(dimension) ==
    /\ Idle
    /\ backend # "none"
    /\ \E q \in Queries, src \in SomeSources(backend) :
        /\ by' = dimension
        /\ query' = q
        /\ source' = src
        /\ result' = InnerBy(backend, dimension, q, src)
    /\ UNCHANGED <<store, backend, listed, limit, output>>
    /\ UNCHANGED <<defaultVars, build, previous, lockVars>>

\* Search::by_target
by_target == SearchBy("target")

\* Search::by_user
by_user == SearchBy("user")

\* Search::by_service
by_service == SearchBy("service")

NextDefault ==
    \/ SetDefaultCredentialSearch
    \/ SearchNew
    \/ by_target
    \/ by_user
    \/ by_service
    \/ Drop

SpecDefault == InitDefault /\ [][NextDefault]_vars

(***************************************************************************)
(* Specification of the lock of the mock store: threads call add, get and  *)
(* by concurrently; a step is what a thread does between two points where  *)
(* it can be made to wait for MockCredentialStore.inner                     *)
(***************************************************************************)
LockCredentials ==
    {[service |-> <<"b">>, target |-> <<"b", "A">>, user |-> <<"b">>],
     [service |-> <<"b">>, target |-> <<"b">>, user |-> <<"b", "A">>]}
LockBys == {"user", "bogus-dimension"}
LockQueries == {<<>>, <<"a">>, <<"[">>}

\* RwLock::write returns when no thread holds the lock in either mode
WriteFree == lock.writer = "none" /\ lock.readers = {}
\* RwLock::read returns when no thread holds the write guard
ReadFree == lock.writer = "none"

\* calls of add that have not pushed yet
Adding == {u \in Threads : pc[u] \in {"add", "add_cs"}}

InitLock ==
    /\ store = <<>>
    /\ backend = "mock"
    /\ by = ""
    /\ query = <<>>
    /\ source = <<>>
    /\ result = NoCall
    /\ listed = NoCall
    /\ limit = NoLimit
    /\ output = NoOutput
    /\ platform = backend
    /\ requested = "none"
    /\ build \in Builds(backend)
    /\ previous = NoPrevious
    /\ Quiet

\* MockCredentialStore::add is entered
AddCall(t) ==
    /\ pc[t] = "idle"
    /\ Len(store) + Cardinality(Adding) < MaxStore
    /\ \E credential \in LockCredentials :
        arg' = [arg EXCEPT ![t] = [NoArg EXCEPT !.credential = credential]]
    /\ pc' = [pc EXCEPT ![t] = "add"]
    /\ UNCHANGED <<store, backend, by, query, source, result, listed, limit, output>>
    /\ UNCHANGED <<defaultVars, build, previous, lock>>

\* add getting the write guard while other threads hold the lock
AddLock_NoExclusion(t) ==
    /\ pc[t] = "add"
    /\ lock' = [lock EXCEPT !.writer = t]
    /\ pc' = [pc EXCEPT ![t] = "add_cs"]
    /\ UNCHANGED <<store, backend, by, query, source, result, listed, limit, output>>
    /\ UNCHANGED <<defaultVars, build, previous, arg>>

\* add: self.inner.write() returns the write guard
AddLock(t) ==
    /\ pc[t] = "add"
    /\ WriteFree
    /\ lock' = [lock EXCEPT !.writer = t]
    /\ pc' = [pc EXCEPT ![t] = "add_cs"]
    /\ UNCHANGED <<store, backend, by, query, source, result, listed, limit, output>>
    /\ UNCHANGED <<defaultVars, build, previous, arg>>

\* add: store.push(Arc::new(credential)), then the guard is dropped
AddPush(t) ==
    /\ pc[t] = "add_cs"
    /\ store' = Append(store, arg[t].credential)
    /\ lock' = [lock EXCEPT !.writer = "none"]
    /\ pc' = [pc EXCEPT ![t] = "idle"]
    /\ arg' = [arg EXCEPT ![t] = NoArg]
    /\ UNCHANGED <<backend, by, query, source, result, listed, limit, output>>
    /\ UNCHANGED <<defaultVars, build, previous>>

\* MockCredentialStore::get is entered
GetCall(t) ==
    /\ pc[t] = "idle"
    /\ pc' = [pc EXCEPT ![t] = "get"]
    /\ UNCHANGED <<store, backend, by, query, source, result, listed, limit, output>>
    /\ UNCHANGED <<defaultVars, build, previous, lock, arg>>

\* get: self.inner.read() returns the read guard, which goes to the caller
GetLock(t) ==
    /\ pc[t] = "get"
    /\ ReadFree
    /\ lock' = [lock EXCEPT !.readers = @ \cup {t}]
    /\ pc' = [pc EXCEPT ![t] = "get_cs"]
    /\ UNCHANGED <<store, backend, by, query, source, result, listed, limit, output>>
    /\ UNCHANGED <<defaultVars, build, previous, arg>>

\* the caller of get drops the RwLockReadGuard
GetDrop(t) ==
    /\ pc[t] = "get_cs"
    /\ lock' = [lock EXCEPT !.readers = @ \ {t}]
    /\ pc' = [pc EXCEPT ![t] = "idle"]
    /\ UNCHANGED <<store, backend, by, query, source, result, listed, limit, output>>
    /\ UNCHANGED <<defaultVars, build, previous, arg>>

\* MockCredentialSearch::by up to store.inner.write() of search_by_*: a
\* query that does not compile and a by that is no dimension return at once
ByCall(t) ==
    /\ pc[t] = "idle"
    /\ \E b \in LockBys, q \in LockQueries :
        IF ~RegexNew(q).ok \/ to_ascii_lowercase(b) \notin {"user", "service", "target"}
        THEN /\ by' = b
             /\ query' = q
             /\ source' = <<>>
             /\ result' = MockBy(b, q, <<>>)
             /\ UNCHANGED <<pc, arg>>
        ELSE /\ pc' = [pc EXCEPT ![t] = "search"]
             /\ arg' = [arg EXCEPT ![t] = [NoArg EXCEPT !.by = b, !.query = q]]
             /\ UNCHANGED <<by, query, source, result>>
    /\ UNCHANGED <<store, backend, listed, limit, output>>
    /\ UNCHANGED <<defaultVars, build, previous, lock>>

\* search_by_* getting the write guard while another thread holds the lock
SearchLock_NoExclusion(t) ==
    /\ pc[t] = "search"
    /\ lock' = [lock EXCEPT !.writer = t]
    /\ pc' = [pc EXCEPT ![t] = "search_cs"]
    /\ UNCHANGED <<store, backend, by, query, source, result, listed, limit, output>>
    /\ UNCHANGED <<defaultVars, build, previous, arg>>

\* search_by_*: store.inner.write() returns the write guard
SearchLock(t) ==
    /\ pc[t] = "search"
    /\ WriteFree
    /\ lock' = [lock EXCEPT !.writer = t]
    /\ pc' = [pc EXCEPT ![t] = "search_cs"]
    /\ UNCHANGED <<store, backend, by, query, source, result, listed, limit, output>>
    /\ UNCHANGED <<defaultVars, build, previous, arg>>

\* search_by_*: the two loops over data, then the return drops the guard
SearchReturn(t) ==
    /\ pc[t] = "search_cs"
    /\ by' = arg[t].by
    /\ query' = arg[t].query
    /\ source' = store
    /\ result' = MockBy(arg[t].by, arg[t].query, store)
    /\ lock' = [lock EXCEPT !.writer = "none"]
    /\ pc' = [pc EXCEPT ![t] = "idle"]
    /\ arg' = [arg EXCEPT ![t] = NoArg]
    /\ UNCHANGED <<store, backend, listed, limit, output>>
    /\ UNCHANGED <<defaultVars, build, previous>>

NextLock ==
    \E t \in Threads :
        \/ AddCall(t)
        \/ AddLock(t)
        \/ AddPush(t)
        \/ GetCall(t)
        \/ GetLock(t)
        \/ GetDrop(t)
        \/ ByCall(t)
        \/ SearchLock(t)
        \/ SearchReturn(t)

SpecLock == InitLock /\ [][NextLock]_vars

(***************************************************************************)
(* Specification of a caller that repeats a search: it keeps the result of *)
(* a call to the mock or the Windows backend and calls by() again with the *)
(* same arguments; records may be added in between                          *)
(***************************************************************************)
InitRepeat ==
    /\ store = <<>>
    /\ backend \in {"mock", "windows"}
    /\ by = ""
    /\ query = <<>>
    /\ source = <<>>
    /\ result = NoCall
    /\ listed = NoCall
    /\ limit = NoLimit
    /\ output = NoOutput
    /\ platform = backend
    /\ requested = "none"
    /\ build \in Builds(backend)
    /\ previous = NoPrevious
    /\ Quiet

\* the first call of the caller
FirstMockSearch == previous = NoPrevious /\ MockSearch

FirstWinSearch == previous = NoPrevious /\ WinSearch

\* the caller keeps the CredentialSearchResult by() returned, with the
\* arguments it gave; a by() that panicked returned nothing to keep
Keep ==
    /\ ~Idle
    /\ result.tag # "Panic"
    /\ previous = NoPrevious
    /\ previous' = [by |-> by, query |-> query, source |-> source, result |-> result]
    /\ by' = ""
    /\ query' = <<>>
    /\ source' = <<>>
    /\ result' = NoCall
    /\ UNCHANGED <<store, backend, listed, limit, output>>
    /\ UNCHANGED <<defaultVars, build, lockVars>>

\* a by() whose matches are gone from the store once they have been returned
MockSearchAgain_Drained ==
    /\ backend = "mock"
    /\ Idle
    /\ previous # NoPrevious
    /\ by' = previous.by
    /\ query' = previous.query
    /\ source' = store
    /\ result' = IF previous.result.tag = "Ok" THEN NoResults
                 ELSE MockBy(previous.by, previous.query, store)
    /\ UNCHANGED <<store, backend, listed, limit, output>>
    /\ UNCHANGED <<defaultVars, build, previous, lockVars>>

\* MockCredentialSearch::by called again with the arguments of the call
\* before, on the store as it is now
MockSearchAgain ==
    /\ backend = "mock"
    /\ Idle
    /\ previous # NoPrevious
    /\ by' = previous.by
    /\ query' = previous.query
    /\ source' = store
    /\ result' = MockBy(previous.by, previous.query, store)
    /\ UNCHANGED <<store, backend, listed, limit, output>>
    /\ UNCHANGED <<defaultVars, build, previous, lockVars>>

\* WinCredentialSearch::by called again with the arguments of the call
\* before: Credential Manager holds what it held then, or another program
\* has deleted every credential in between and CredEnumerateW fails
WinSearchAgain ==
    /\ backend = "windows"
    /\ Idle
    /\ previous # NoPrevious
    /\ \E src \in {previous.source, [enumerated |-> FALSE, creds |-> <<>>]} :
        /\ by' = previous.by
        /\ query' = previous.query
        /\ source' = src
        /\ result' = WinBy(previous.by, previous.query, src, build)
    /\ UNCHANGED <<store, backend, listed, limit, output>>
    /\ UNCHANGED <<defaultVars, build, previous, lockVars>>

NextRepeat ==
    \/ MockAdd
    \/ FirstMockSearch
    \/ FirstWinSearch
    \/ Keep
    \/ MockSearchAgain
    \/ WinSearchAgain
    \/ Drop

SpecRepeat == InitRepeat /\ [][NextRepeat]_vars

(***************************************************************************)
(* Specification of a caller that adds records to the mock store, searches *)
(* it and renders what the search returned, one call at a time              *)
(***************************************************************************)
InitFrame ==
    /\ store = <<>>
    /\ backend = "mock"
    /\ by = ""
    /\ query = <<>>
    /\ source = <<>>
    /\ result = NoCall
    /\ listed = NoCall
    /\ limit = NoLimit
    /\ output = NoOutput
    /\ platform = backend
    /\ requested = "none"
    /\ build \in Builds(backend)
    /\ previous = NoPrevious
    /\ Quiet

\* the caller holds no rendered text
NoText == output = NoOutput

\* MockCredentialStore::add with one of two records
FrameAdd == NoText /\ MockAdd /\ store'[Len(store')] \in LockCredentials

FrameSearch == NoText /\ MockSearch

FrameList == NoText /\ ListCredentials

\* the caller drops the Result<String> list_credentials returned
DropText ==
    /\ ~NoText
    /\ listed' = NoCall
    /\ limit' = NoLimit
    /\ output' = NoOutput
    /\ by' = ""
    /\ query' = <<>>
    /\ source' = <<>>
    /\ UNCHANGED <<store, backend, result>>
    /\ UNCHANGED <<defaultVars, build, previous, lockVars>>

NextFrame ==
    \/ FrameAdd
    \/ FrameSearch
    \/ FrameList
    \/ Drop
    \/ DropText

SpecFrame == InitFrame /\ [][NextFrame]_vars

(***************************************************************************)
(* Specification of keyutils.rs search_by_keyring called directly          *)
(***************************************************************************)
\* names of keyrings a caller gives: the six identifiers, one of them with a
\* capital letter, one that is no identifier, and the empty name
KeyringNames == KeyringIdentifiers \cup {"Session", "keyring", ""}

InitKeyring ==
    /\ store = <<>>
    /\ backend = "keyutils"
    /\ by = ""
    /\ query = <<>>
    /\ source = <<>>
    /\ result = NoCall
    /\ listed = NoCall
    /\ limit = NoLimit
    /\ output = NoOutput
    /\ platform = backend
    /\ requested = "none"
    /\ build \in Builds(backend)
    /\ previous = NoPrevious
    /\ Quiet

\* search_by_keyring(by, query)
SearchByKeyring ==
    /\ Idle
    /\ \E ring \in KeyringNames, q \in Queries, src \in KeyutilsSources :
        /\ by' = ring
        /\ query' = q
        /\ source' = src
        /\ result' = search_by_keyring(ring, q, src)
    /\ UNCHANGED <<store, backend, listed, limit, output>>
    /\ UNCHANGED <<defaultVars, build, previous, lockVars>>

NextKeyring ==
    \/ SearchByKeyring
    \/ Drop

SpecKeyring == InitKeyring /\ [][NextKeyring]_vars

(***************************************************************************)
(* Vocabulary of the properties                                            *)
(***************************************************************************)
Min(a, b) == IF a < b THEN a ELSE b

\* the dimensions a backend searches by
Dimensions(be) ==
    CASE be = "macos" -> {"label", "service", "account"}
      [] be = "ios" -> {"service", "user"}
      [] OTHER -> {"user", "service", "target"}

Called == ~Idle

IsLiteral(q) == \A i \in 1..Len(q) : q[i] \notin MetaChars

\* q is a substring of f, letter case ignored
SubstringCI(q, f) ==
    \E start \in 0..(Len(f) - Len(q)) :
        \A j \in 1..Len(q) : Fold(f[start + j]) = Fold(q[j])

Field(credential, d) ==
    CASE d = "user" -> credential.user
      [] d = "service" -> credential.service
      [] d = "target" -> credential.target

\* the attribute record of a mock credential
MockAttrs(credential) ==
    [k \in {"User", "Service", "Target"} |->
        CASE k = "User" -> credential.user
          [] k = "Service" -> credential.service
          [] k = "Target" -> credential.target]

Returned(credential) == \E k \in DOMAIN result.map : result.map[k] = MockAttrs(credential)

\* the record source found nothing for a call whose dimension and query
\* the backend accepts
MatchedSetEmpty ==
    /\ Called
    /\ to_ascii_lowercase(by) \in Dimensions(backend)
    /\ CASE backend = "mock" ->
                /\ RegexNew(query).ok
                /\ \A i \in 1..Len(source) :
                     ~is_match(RegexNew(query), Field(source[i], to_ascii_lowercase(by)))
         [] backend = "windows" ->
                /\ RegexNew(query).ok
                /\ source.enumerated
                /\ \A i \in 1..Len(source.creds) :
                     /\ ~TargetSlicePanics(source.creds[i])
                     /\ ~LastWrittenPanics(source.creds[i])
                     /\ ~is_match(RegexNew(query),
                                  WinHaystack(to_ascii_lowercase(by), ConvertCred(source.creds[i])))
         [] backend = "macos" -> source.ok /\ source.items = <<>>
         [] backend = "ios" -> source.ok /\ source.items = <<>>
         [] backend = "secret-service" ->
                /\ source.stage = "ok"
                /\ \A n \in 1..Len(source.collections) :
                     source.collections[n].ok /\ source.collections[n].items = <<>>
         [] backend = "keyutils" -> source.stage = "KeyDoesNotExist"

\* a raw target name with the credential-type prefix stripped, as the doc
\* comment of get_all_credentials describes it
TargetAfterPrefix(name) ==
    IF FindEq(name) = 0 THEN name ELSE SubSeq(name, FindEq(name) + 1, Len(name))

\* the items of all collections in the order search_items counts them
RECURSIVE SsFlat(_)
SsFlat(collections) ==
    IF collections = <<>> THEN <<>>
    ELSE collections[1].items \o SsFlat(Tail(collections))

\* the number of records the record source matched for the call that gave
\* a successful result: the records of the store or of the enumeration that
\* the regex matches, the items the native search of the keychain or of a
\* collection returned (an item found by an attribute has an attribute),
\* the one key of the keyring
MatchedRecords ==
    CASE backend = "mock" ->
            Len(SelectSeq(source, LAMBDA credential :
                    is_match(RegexNew(query), Field(credential, to_ascii_lowercase(by)))))
      [] backend = "windows" ->
            Len(WinSearchFn(to_ascii_lowercase(by), query, source, build).results)
      [] backend \in {"macos", "ios"} -> Len(source.items)
      [] backend = "secret-service" ->
            Cardinality({n \in 1..Len(SsFlat(source.collections)) :
                            SsFlat(source.collections)[n].attrs # EmptyMap})
      [] backend = "keyutils" -> 1

\* blocks of rendered text: a block is a label line (one piece) followed by
\* attribute lines (three pieces)
LabelLines(lines) == {i \in 1..Len(lines) : Len(lines[i]) = 1}
NumBlocks(lines) == Cardinality(LabelLines(lines))
BlockEnd(lines, i) ==
    CHOOSE e \in i..Len(lines) :
        /\ \A j \in (i + 1)..e : Len(lines[j]) = 3
        /\ e = Len(lines) \/ Len(lines[e + 1]) = 1
BlockAttrs(lines, i) == SubSeq(lines, i + 1, BlockEnd(lines, i))
StartsWithLabel(lines) == lines # <<>> => Len(lines[1]) = 1
\* the label line names entry k, in the format of list_all or of list_max
LabelNames(line, k) == line[1] = k \/ line[1] = "Target: " \o k
Entries(r) == Cardinality(DOMAIN r.map)
\* the outer map has the keys "1".."k" (mock.rs, windows.rs: count.to_string())
NumericKeyed(r) == DOMAIN r.map = {ToString(i) : i \in 1..Entries(r)}

\* the record source of the call failed: the native API or the transport
\* gave an error (for keyutils, one other than KeyDoesNotExist)
SourceFailed ==
    /\ Called
    /\ to_ascii_lowercase(by) \in Dimensions(backend)
    /\ CASE backend \in {"macos", "ios"} -> ~source.ok
         [] backend = "secret-service" ->
                \/ source.stage \in {"connect", "collections"}
                \/ \E n \in 1..Len(source.collections) : ~source.collections[n].ok
         [] backend = "keyutils" -> source.stage \in {"ring", "search", "metadata"}
         [] OTHER -> FALSE

\* the record source gave its records and one of those the call has to
\* convert cannot be converted
ConversionFails ==
    /\ Called
    /\ to_ascii_lowercase(by) \in Dimensions(backend)
    /\ CASE backend = "windows" ->
                LET found == WinSearchFn(to_ascii_lowercase(by), query, source, build)
                IN /\ found.tag = "Ok"
                   /\ \E i \in 1..Len(found.results) :
                        \/ ~match_cred_type(found.results[i].cred_type).ok
                        \/ ~match_persist_type(found.results[i].persist).ok
         [] backend \in {"macos", "ios"} ->
                /\ source.ok
                /\ \E i \in 1..Len(source.items) : ~source.items[i].some
         [] backend = "secret-service" ->
                /\ source.stage = "ok"
                /\ \A n \in 1..Len(source.collections) : source.collections[n].ok
                /\ \E n \in 1..Len(source.collections) :
                   \E i \in 1..Len(source.collections[n].items) :
                        LET item == source.collections[n].items[i]
                        IN ~item.attrsOk \/ (~item.labelOk /\ item.attrs # EmptyMap)
         [] OTHER -> FALSE

\* the failures with which the backends turn down a dimension
DimensionErrors ==
    {SearchError("Invalid search parameter, not Target, Service, or User"),
     SearchError("Invalid search parameter, not Label, Service, or Account"),
     SearchError("Unexpected search by parameter"),
     Unexpected("Mock by parameter"),
     Unexpected("cannot search by target in iOS, please use by_service or by_user"),
     Unexpected("by parameter iOS")}

(***************************************************************************)
(* Properties                                                              *)
(***************************************************************************)

\* C1: on every backend a search whose matched record set is empty returns
\* Err(NoResults), and by() never returns Ok with an empty outer map.
C1_EmptyMatchIsNoResults ==
    /\ MatchedSetEmpty => result.tag = "NoResults"
    /\ Called /\ result.tag = "Ok" => DOMAIN result.map # {}

\* C2: a mock search by user, service or target with a query of literal
\* characters returns a record if and only if the query is a
\* case-insensitive substring of that record's field of the dimension
\* searched; nothing else is returned.
C2_MockLiteralSubstring ==
    (/\ backend = "mock"
     /\ Called
     /\ to_ascii_lowercase(by) \in {"user", "service", "target"}
     /\ IsLiteral(query))
    => /\ \A i \in 1..Len(source) :
            Returned(source[i]) <=>
                SubstringCI(query, Field(source[i], to_ascii_lowercase(by)))
       /\ \A k \in DOMAIN result.map :
            \E i \in 1..Len(source) : result.map[k] = MockAttrs(source[i])

\* a search by user for "a" over two records returned one of them and left
\* out a record whose service contains "a" but whose user does not
C2_Witness ==
    /\ backend = "mock"
    /\ by = "user"
    /\ query = <<"a">>
    /\ Len(source) = 2
    /\ result.tag = "Ok"
    /\ Entries(result) = 1
    /\ \E i \in 1..2 :
        /\ ~SubstringCI(query, source[i].user)
        /\ SubstringCI(query, source[i].service)
        /\ ~Returned(source[i])

\* C3: on a non-empty mock store a search by a valid dimension with the
\* empty query returns a success map with one entry for every record.
C3_EmptyQueryListsAll ==
    (/\ backend = "mock"
     /\ Called
     /\ to_ascii_lowercase(by) \in {"user", "service", "target"}
     /\ query = <<>>
     /\ source # <<>>)
    => /\ result.tag = "Ok"
       /\ Entries(result) = Len(source)
       /\ \A i \in 1..Len(source) : Returned(source[i])

\* the empty query over a store of two different records returned both
C3_Witness ==
    /\ backend = "mock"
    /\ by = "service"
    /\ query = <<>>
    /\ Len(source) = 2
    /\ source[1] # source[2]
    /\ result.tag = "Ok"
    /\ Entries(result) = 2

\* C4: on the regex-matching backends (mock, Windows) a query that is not a
\* valid regex gives Err(SearchError), whatever the store and the
\* dimension: never Ok, never another failure, never a panic.
C4_InvalidRegexIsSearchError ==
    (/\ backend \in {"mock", "windows"}
     /\ Called
     /\ ~RegexNew(query).ok)
    => result.tag = "SearchError"

\* C5: on every backend a search by a value that is not one of the
\* backend's dimensions returns Err(Unexpected) or Err(SearchError), never
\* Ok and never NoResults.
C5_BadDimensionIsError ==
    (Called /\ to_ascii_lowercase(by) \notin Dimensions(backend))
    => result.tag \in {"Unexpected", "SearchError"}

\* C6: on every backend a by value other than user, service and target (in
\* any letter case) gives Err(SearchError); Err(Unexpected) is given for a
\* dimension only when it is one of these three and the backend does not
\* support it.
C6_UnrecognizedIsSearchError ==
    /\ (Called /\ to_ascii_lowercase(by) \notin {"user", "service", "target"})
        => result.tag = "SearchError"
    /\ (Called /\ result.tag = "Unexpected" /\ backend \in {"mock", "ios"})
        => /\ to_ascii_lowercase(by) \in {"user", "service", "target"}
           /\ to_ascii_lowercase(by) \notin Dimensions(backend)

\* C7: for every success map and every n >= 0, list_credentials with
\* Limit::Max(n) emits at most n blocks; Limit::Max(0) emits none.
C7_MaxEmitsAtMostN ==
    (listed.tag = "Ok" /\ limit.kind = "Max" /\ limit.max >= 0)
    => /\ output.tag = "Ok"
       /\ NumBlocks(output.lines) <= limit.max

\* C8: for a success map with k entries and n >= 1, list_credentials with
\* Limit::Max(n) emits exactly min(n, k) blocks, each of one label line and
\* one line for every attribute of its entry.
C8_MaxEmitsMinBlocks ==
    (listed.tag = "Ok" /\ limit.kind = "Max" /\ limit.max >= 1)
    => /\ output.tag = "Ok"
       /\ NumBlocks(output.lines) = Min(limit.max, Entries(listed))
       /\ StartsWithLabel(output.lines)
       /\ \A i \in LabelLines(output.lines) :
            \E k \in DOMAIN listed.map :
                /\ LabelNames(output.lines[i], k)
                /\ Len(BlockAttrs(output.lines, i)) = Cardinality(DOMAIN listed.map[k])

\* three mock entries rendered with Max(2): 2 * (1 + 3) = 8 lines
C8_Witness ==
    /\ listed.tag = "Ok"
    /\ Entries(listed) = 3
    /\ limit = Max(2)
    /\ output.tag = "Ok"
    /\ Len(output.lines) = 8

\* C9: for every success map, list_credentials with Limit::All emits
\* exactly one block for every entry of the outer map, and the block of an
\* entry holds exactly one line "key: value" for every attribute of the
\* entry and no other line.
C9_AllEmitsEveryEntry ==
    (listed.tag = "Ok" /\ limit.kind = "All")
    => /\ output.tag = "Ok"
       /\ NumBlocks(output.lines) = Entries(listed)
       /\ StartsWithLabel(output.lines)
       /\ \A k \in DOMAIN listed.map :
            \E i \in LabelLines(output.lines) :
                /\ LabelNames(output.lines[i], k)
                /\ \A j \in LabelLines(output.lines) :
                     LabelNames(output.lines[j], k) => j = i
                /\ LET attrs == BlockAttrs(output.lines, i)
                   IN /\ Len(attrs) = Cardinality(DOMAIN listed.map[k])
                      /\ {attrs[n] : n \in 1..Len(attrs)} =
                            {<<a, ": ", listed.map[k][a]>> : a \in DOMAIN listed.map[k]}

\* two keychain entries, one with two attributes and one with none,
\* rendered with Limit::All: 2 + 2 + 0 lines
C9_Witness ==
    /\ listed.tag = "Ok"
    /\ DOMAIN listed.map = {"L1", "L2"}
    /\ limit.kind = "All"
    /\ output.tag = "Ok"
    /\ Len(output.lines) = 4

\* C10: the rendering is the same for both limits: every block starts with
\* a line that holds exactly the outer-map key, so for a success map with
\* k entries and n >= k, Limit::Max(n) gives the text Limit::All gives for
\* the same iteration order.
C10_MaxAtLeastKEqualsAll ==
    (listed.tag = "Ok" /\ limit.kind = "Max" /\ limit.max >= Entries(listed))
    => /\ \A i \in LabelLines(output.lines) : output.lines[i][1] \in DOMAIN listed.map
       /\ \E ko \in Orders(DOMAIN listed.map) :
          \E io \in InnerOrders(listed.map) :
            output = list_credentials(listed, All, ko, io)

\* C11: when the search result given to list_credentials is a failure,
\* list_credentials returns the same failure variant with the same detail
\* and no text, under Limit::All and under Limit::Max(n) for every n.
C11_FailurePropagates ==
    (listed.tag \in {"NoResults", "SearchError", "Unexpected"})
    => /\ output.tag = listed.tag
       /\ output.detail = listed.detail
       /\ output.lines = <<>>

\* Err(SearchError("Regex Error")) came back from list_credentials with
\* Limit::Max(0)
C11_Witness ==
    /\ listed = SearchError("Regex Error")
    /\ limit = Max(0)
    /\ output.tag = "SearchError"
    /\ output.detail = "Regex Error"

\* C13: for a success map with the numeric keys "1".."k" (mock, Windows),
\* list_credentials emits the blocks in ascending order of the key, so with
\* Limit::Max(n) the blocks emitted are those of the keys "1".."n".
C13_AscendingByKey ==
    (listed.tag = "Ok" /\ NumericKeyed(listed) /\ output.tag = "Ok")
    => LET labels == SelectSeq(output.lines, LAMBDA line : Len(line) = 1)
       IN \A i \in 1..Len(labels) : LabelNames(labels[i], ToString(i))

\* C12: once set_default_credential_search(b) has been called, every later
\* Search::new() returns a Search whose by_user, by_service and by_target
\* go to backend b and not to the platform's default backend.
C12_NewUsesRequestedBackend ==
    [][(SearchNew /\ requested # "none") => backend' = requested]_vars

\* C14: in the mock store two searches can hold their access to the record
\* set at the same time: a search that has reached the store while another
\* search is inside does not have to wait for it.
C14_SearchesShareAccess ==
    \A t, u \in Threads :
        (t # u /\ pc[t] = "search" /\ pc[u] = "search_cs") => ENABLED SearchLock(t)

\* C15: while an add has access to the record set of the mock store, no
\* search, no get and no other add has access to it.
C15_AddExcludesAll ==
    \A t, u \in Threads :
        (t # u /\ pc[t] = "add_cs") => pc[u] \notin {"add_cs", "search_cs", "get_cs"}

\* an add holds the write guard while a search of the other thread waits
\* for the lock
C15_Witness ==
    /\ pc["t1"] = "add_cs"
    /\ lock.writer = "t1"
    /\ pc["t2"] = "search"
    /\ store # <<>>

\* C16: when the record source of a backend itself fails (native API or
\* transport error), by() returns Err(SearchError) and never
\* Err(NoResults): NoResults is kept for searches that matched nothing.
C16_SourceFailureIsSearchError ==
    SourceFailed => result.tag = "SearchError"

\* C17: when a matched record cannot be converted during result assembly,
\* the whole by() call fails with Err(SearchError): it returns neither Ok
\* without the record nor NoResults nor Unexpected.
C17_ConversionFailureIsSearchError ==
    ConversionFails => result.tag = "SearchError"

\* C18: on every backend Search::by_user, Search::by_service and
\* Search::by_target pass a dimension the backend supports: none of them
\* fails with the backend's invalid-dimension error.
C18_EntryPointsAreSupported ==
    (Called /\ by \in {"user", "service", "target"}) => result \notin DimensionErrors

\* C19: for every backend, the outer-map keys of a successful result with
\* k entries are exactly the decimal strings "1".."k".
C19_KeysAreOneToK ==
    (Called /\ result.tag = "Ok") => NumericKeyed(result)

C21_SearchAndListLeaveStore ==
    [][((result = NoCall /\ result' # NoCall) \/ (output = NoOutput /\ output' # NoOutput))
        => store' = store]_vars

\* a search of a store of two records returned both, the result was
\* rendered, and the store still holds what the search was given
C21_Witness ==
    /\ Len(store) = 2
    /\ store = source
    /\ listed.tag = "Ok"
    /\ Entries(listed) = 2
    /\ output.tag = "Ok"

\* C22: on the keyutils backend by() does not look at its by argument and
\* searches the session keyring: the same query gives the same outcome for
\* every by; a successful result holds one entry with the four attributes
\* perm, gid, uid and ktype, and every Limit renders it as one block.
C22_KeyutilsIgnoresBy ==
    (backend = "keyutils" /\ Called)
    => /\ result = search_by_keyring("session", query, source)
       /\ \A b \in ByValues : KeyutilsBy(b, query, source) = result
       /\ result.tag = "Ok" =>
            /\ Entries(result) = 1
            /\ \A k \in DOMAIN result.map :
                 DOMAIN result.map[k] = {"perm", "gid", "uid", "ktype"}
            /\ \A lim \in Limits :
               \A ko \in Orders(DOMAIN result.map) :
               \A io \in InnerOrders(result.map) :
                  LET text == list_credentials(result, lim, ko, io)
                  IN text.tag = "Ok" /\ NumBlocks(text.lines) = 1

\* by() was given a by that is neither a dimension nor the name of a
\* keyring and returned the one key the session keyring holds
C22_Witness ==
    /\ backend = "keyutils"
    /\ by = "bogus-dimension"
    /\ source.stage = "ok"
    /\ result.tag = "Ok"
    /\ Entries(result) = 1

\* C26: search_by_keyring returns Err(SearchError) for every name other
\* than exactly thread, process, session, user, user session or group,
\* Err(NoResults) when the key does not exist, Err(SearchError) for every
\* other failure of opening the ring, searching or reading the metadata,
\* and Ok in none of these cases.
C26_KeyringErrors ==
    Called =>
        /\ by \notin KeyringIdentifiers => result.tag = "SearchError"
        /\ (by \in KeyringIdentifiers /\ source.stage = "KeyDoesNotExist")
              => result = NoResults
        /\ (by \in KeyringIdentifiers /\ source.stage \in {"ring", "search", "metadata"})
              => result.tag = "SearchError"
        /\ result.tag = "Ok" => (by \in KeyringIdentifiers /\ source.stage = "ok")

\* the name "Session" was turned down although the keyring holds the key
C26_Witness ==
    /\ by = "Session"
    /\ source.stage = "ok"
    /\ result.tag = "SearchError"

\* C23: on the secret-service backend no record of a successful result
\* holds the attribute "xdg:schema"; every other attribute of the item the
\* record was made from is in the record with the item's value, and the
\* record has a "label" attribute.
C23_SchemaStrippedRestKept ==
    (backend = "secret-service" /\ Called /\ result.tag = "Ok")
    => \A n \in 1..Len(SsFlat(source.collections)) :
         ToString(n) \in DOMAIN result.map =>
            LET record == result.map[ToString(n)]
                item == SsFlat(source.collections)[n]
            IN /\ "xdg:schema" \notin DOMAIN record
               /\ "label" \in DOMAIN record
               /\ \A a \in DOMAIN item.attrs \ {"xdg:schema"} :
                     a \in DOMAIN record /\ record[a] = item.attrs[a]

\* C24: a mock search that matches k >= 1 records succeeds, its keys are
\* exactly "1".."k", and the entry under key i holds exactly User, Service
\* and Target with the values of the i-th matching record in the order of
\* the store.
C24_EntryIsIthMatch ==
    (/\ backend = "mock" /\ Called
     /\ RegexNew(query).ok
     /\ to_ascii_lowercase(by) \in Dimensions("mock"))
    => LET matching == SelectSeq(source, LAMBDA credential :
                           is_match(RegexNew(query),
                                    Field(credential, to_ascii_lowercase(by))))
           k == Len(matching)
       IN k >= 1 =>
            /\ result.tag = "Ok"
            /\ DOMAIN result.map = {ToString(i) : i \in 1..k}
            /\ \A i \in 1..k : result.map[ToString(i)] = MockAttrs(matching[i])

\* two records that differ were both matched, or the second record of the
\* store was the only match and sits under key "1"
C24_Witness ==
    /\ backend = "mock"
    /\ result.tag = "Ok"
    /\ Len(source) = 2
    /\ \/ Entries(result) = 2 /\ result.map["1"] # result.map["2"]
       \/ Entries(result) = 1 /\ result.map["1"] = MockAttrs(source[2])
                              /\ source[1] # source[2]

\* C25: Windows enumeration strips only the credential-type prefix: the
\* target of an entry is the text after the first '=' of a raw name, a raw
\* name without '=' is kept whole, and an empty raw name causes no panic.
C25_OnlyPrefixStripped ==
    (/\ backend = "windows" /\ Called
     /\ to_ascii_lowercase(by) \in Dimensions("windows")
     /\ source.enumerated)
    => /\ (\A i \in 1..Len(source.creds) : ~LastWrittenPanics(source.creds[i]))
            => result.tag # "Panic"
       /\ result.tag = "Ok" =>
            \A k \in DOMAIN result.map :
               \E i \in 1..Len(source.creds) :
                  result.map[k]["Target"] = TargetAfterPrefix(source.creds[i].TargetName)

\* C27: get_last_written never leaves the DAYS and MONTHS tables: when
\* every SYSTEMTIME has wDayOfWeek in 0..6 and wMonth in 1..12, or is the
\* zeroed one of a failed conversion, a Windows search does not panic while
\* it enumerates the credentials.
C27_LastWrittenInRange ==
    (/\ backend = "windows" /\ Called
     /\ to_ascii_lowercase(by) \in Dimensions("windows")
     /\ source.enumerated
     /\ \A i \in 1..Len(source.creds) :
           /\ ~TargetSlicePanics(source.creds[i])
           /\ \/ source.creds[i].wDayOfWeek \in 0..6 /\ source.creds[i].wMonth \in 1..12
              \/ source.creds[i].wDayOfWeek = 0 /\ source.creds[i].wMonth = 0)
    => result.tag # "Panic"

\* C28: on every backend a successful result has one outer-map entry for
\* each matched record: no two matched records share an entry and none is
\* left out.
C28_OneEntryPerMatch ==
    (Called /\ result.tag = "Ok") => Entries(result) = MatchedRecords

\* C29: under every interleaving of add and search calls on the mock store
\* a search sees the store of one instant: from the moment it holds the
\* guard until it returns no step changes the store, and its result is the
\* match set over that store, so an add of another thread is in it whole or
\* not at all.
C29_SearchSeesSnapshot ==
    [][\A t \in Threads :
          /\ pc[t] = "search_cs" => store' = store
          /\ (pc[t] = "search_cs" /\ pc'[t] = "idle")
                => /\ source' = store
                   /\ result' = MockBy(arg[t].by, arg[t].query, store)
                   /\ \A n \in 1..Len(store) :
                         is_match(RegexNew(arg[t].query), store[n].user)
                            => \E k \in DOMAIN result'.map :
                                  result'.map[k] = MockAttrs(store[n])]_vars

\* a search holds the guard over a store of one record while another
\* thread is inside add and waits for the guard
C29_Witness ==
    /\ pc["t1"] = "search_cs"
    /\ pc["t2"] = "add"
    /\ Len(store) = 1
    /\ lock.writer = "t1"

\* C30: the global mock store only grows: a step that changes it appends
\* one record and leaves the others where they were; hence a search returns
\* every record added before it that its query matches, and a search with
\* the by and query of an earlier successful search returns each record of
\* the earlier result under the same key.
C30_StoreOnlyGrows ==
    [][backend = "mock" =>
         /\ store' # store =>
               Len(store') = Len(store) + 1 /\ SubSeq(store', 1, Len(store)) = store
         /\ (Idle /\ result' # NoCall /\ result'.tag \in {"Ok", "NoResults"}) =>
               /\ \A n \in 1..Len(store) :
                     is_match(RegexNew(query'), Field(store[n], to_ascii_lowercase(by')))
                        => \E k \in DOMAIN result'.map :
                              result'.map[k] = MockAttrs(store[n])
               /\ (/\ previous # NoPrevious
                   /\ previous.result.tag = "Ok"
                   /\ by' = previous.by
                   /\ query' = previous.query)
                  => /\ result'.tag = "Ok"
                     /\ \A k \in DOMAIN previous.result.map :
                           /\ k \in DOMAIN result'.map
                           /\ result'.map[k] = previous.result.map[k]]_vars

\* a search returned the one record of the store under key "1"; a record
\* was added; the same search returned both, the first under key "1" again
C30_Witness ==
    /\ backend = "mock"
    /\ previous.result.tag = "Ok"
    /\ Len(previous.source) = 1
    /\ Entries(previous.result) = 1
    /\ Len(source) = 2
    /\ result.tag = "Ok"
    /\ Entries(result) = 2
    /\ result.map["1"] = previous.result.map["1"]
    /\ result.map["2"] # result.map["1"]

====
